---------------------------- MODULE Spec2Model ----------------------------
(***************************************************************************)
(* Model of the query resolution and trending engine of the inshorts news  *)
(* service (src/app): the trending scorer (repository.py), the trending    *)
(* cache in front of it (services.py), the intent parser (llm.py) and the  *)
(* query dispatcher (services.py, main.py).                                *)
(*                                                                         *)
(* Units.  Coordinates are integers in quarter degrees (1 = 0.25 deg), so  *)
(* that both exact multiples of the 0.5 deg cache grid and the rounding    *)
(* ties between them occur.  Times are integers in seconds.  Weights are   *)
(* in halves (view 1.0 = 2, click 1.5 = 3, share 2.5 = 5), decay factors   *)
(* and geo bonuses in thousandths, distances in tenths of a kilometre.     *)
(* Strings are sequences of one-character strings.                         *)
(***************************************************************************)
EXTENDS Integers, Sequences, FiniteSets, TLC

VARIABLES
    now,        \* the clock read by TTLCache's timer and by utcnow(), seconds
    cache,      \* _trending_cache: entries [key, value, expires], least recently used first
    lastCall,   \* the last get_trending_articles call: arguments, snapshot, outcome
    used,       \* the cached keys in the order of their last hit or store, oldest first
    db,         \* the record store: articles and interaction events
    trend,      \* the last trending_articles call: arguments and returned list
    parsed,     \* the last analyze_query call: reply handled and QueryIntent returned
    dispatch,   \* the last resolve_query / resolve_user_query call: strategy run
    callers     \* the request threads inside get_trending_articles: position and locals

vars == <<now, cache, lastCall, used, db, trend, parsed, dispatch, callers>>

\* An optional value (Python's Optional) is <<>> for None and <<x>> for x.
None == <<>>
Some(x) == <<x>>
ValueOf(o) == o[1]

(***************************************************************************)
(* Bounds of the model.                                                    *)
(***************************************************************************)
\* Capacity of the trending cache.  The code constructs it with maxsize=128
\* (services.py:31); the eviction logic is parametric in the capacity and the
\* model runs it at a small capacity, with more buckets than capacity.
MaxSize == 2
\* Seconds that pass in one step of the clock (half of the TTL).
TickStep == 150
\* The clock stops advancing here.
MaxTime == 450
\* Largest limit a caller passes.
MaxLimit == 2
\* Largest number of words in a query.
MaxWords == 3

(***************************************************************************)
(* Program constants.                                                      *)
(***************************************************************************)
trending_cache_ttl_seconds == 300
\* trending_cluster_precision = 0.5 degrees, in quarter degrees
trending_cluster_precision == 2
\* window_hours=24, in seconds
WindowSeconds == 86400
\* the geo bonus reaches zero at 50 km, in tenths of a kilometre
GeoBonusRange == 500
\* limit * 3 candidates
CandidateFactor == 3

Max(a, b) == IF a >= b THEN a ELSE b
Min(a, b) == IF a <= b THEN a ELSE b
Abs(a) == IF a >= 0 THEN a ELSE -a

(***************************************************************************)
(* repository.py: haversine_distance.                                      *)
(* The great-circle distance, in tenths of a kilometre, between points     *)
(* given in quarter degrees.  One quarter degree of arc on a sphere of     *)
(* radius 6371 km is 27.8 km.  The model keeps all points within a degree  *)
(* or two of the equator, where the haversine formula agrees with         *)
(* 27.8 km * sqrt(dlat^2 + dlon^2) to within 0.1 km; the model takes the   *)
(* square root to one decimal place, rounded down.                         *)
(***************************************************************************)
QuarterDegreeTenthsKm == 278

RECURSIVE ISqrtFrom(_, _)
ISqrtFrom(n, r) == IF (r + 1) * (r + 1) > n THEN r ELSE ISqrtFrom(n, r + 1)

\* the largest r with r * r <= n, searched for from low, where low * low <= n
ISqrt(n, low) == ISqrtFrom(n, low)

haversine_distance(lat1, lon1, lat2, lon2) ==
    LET dlat == lat2 - lat1
        dlon == lon2 - lon1
    IN  (QuarterDegreeTenthsKm * ISqrt(100 * (dlat * dlat + dlon * dlon),
                                       10 * Max(Abs(dlat), Abs(dlon)))) \div 10

(***************************************************************************)
(* repository.py: the age penalty exp(-|now - timestamp| / 3600) of        *)
(* trending_articles, in thousandths, tabulated at whole hours.            *)
(***************************************************************************)
age_penalty(t, timestamp) ==
    LET h == Abs(t - timestamp) \div 3600
    IN  CASE h = 0 -> 1000
          [] h = 1 -> 368
          [] h = 2 -> 135
          [] h = 3 -> 50
          [] h = 4 -> 18
          [] h = 5 -> 7
          [] h = 6 -> 2
          [] h = 7 -> 1
          [] OTHER -> 0

RECURSIVE SumScore(_, _, _)
\* sum(weight * age_penalty) over the events of article id, newer than threshold
SumScore(events, id, t) ==
    IF events = <<>> THEN 0
    ELSE LET e == Head(events)
             rest == SumScore(Tail(events), id, t)
         IN  IF e.article_id = id /\ e.timestamp >= t - WindowSeconds
             THEN e.weight * age_penalty(t, e.timestamp) + rest
             ELSE rest

\* the articles the subquery yields a row for: at least one event in the window
InWindow(store, t) ==
    { id \in DOMAIN store.articles :
        \E i \in 1..Len(store.events) :
            /\ store.events[i].article_id = id
            /\ store.events[i].timestamp >= t - WindowSeconds }

BaseScore(store, id, t) == SumScore(store.events, id, t)

\* the rows of the subquery: an article with an event in the window, and its score
ScoreRows(store, t) ==
    { [article_id |-> id, score |-> BaseScore(store, id, t)] : id \in InWindow(store, t) }

RECURSIVE OrdersOf(_)
\* the orders of the articles of the rows by score, highest first, rows of
\* equal score in any order
OrdersOf(rows) ==
    IF rows = {} THEN {<<>>}
    ELSE LET top == { x \in rows : \A y \in rows : x.score >= y.score }
         IN  UNION { { <<x.article_id>> \o s : s \in OrdersOf(rows \ {x}) } : x \in top }

\* all orders in which the database may return the joined rows
ScoreOrders(store, t) == OrdersOf(ScoreRows(store, t))

Take(s, n) == SubSeq(s, 1, Min(Len(s), Max(n, 0)))

geo_bonus(distance) == Max(0, 1000 - (1000 * distance) \div GeoBonusRange)

\* float(base_score) * (1 + geo_bonus), in millionths of a weight half
FinalScore(store, id, lat, lon, t) ==
    LET a == store.articles[id]
    IN  BaseScore(store, id, t)
          * (1000 + geo_bonus(haversine_distance(lat, lon, ValueOf(a.latitude),
                                                        ValueOf(a.longitude))))

HasCoordinates(store, id) ==
    store.articles[id].latitude # None /\ store.articles[id].longitude # None

RECURSIVE GeoTagged(_, _)
\* the loop over candidates: those without both coordinates are skipped
GeoTagged(store, cands) ==
    IF cands = <<>> THEN <<>>
    ELSE IF HasCoordinates(store, Head(cands))
         THEN <<Head(cands)>> \o GeoTagged(store, Tail(cands))
         ELSE GeoTagged(store, Tail(cands))

RECURSIVE InsertDesc(_, _, _, _, _, _)
\* x goes behind every element whose score is at least its own (a stable sort)
InsertDesc(sorted, x, store, lat, lon, t) ==
    IF sorted = <<>> THEN <<x>>
    ELSE IF FinalScore(store, Head(sorted), lat, lon, t) >= FinalScore(store, x, lat, lon, t)
         THEN <<Head(sorted)>> \o InsertDesc(Tail(sorted), x, store, lat, lon, t)
         ELSE <<x>> \o sorted

RECURSIVE SortDesc(_, _, _, _, _)
\* scored.sort(key=final score, reverse=True): stable, highest first
SortDesc(s, store, lat, lon, t) ==
    IF s = <<>> THEN <<>>
    ELSE InsertDesc(SortDesc(SubSeq(s, 1, Len(s) - 1), store, lat, lon, t),
                    s[Len(s)], store, lat, lon, t)

\* a statement without its LIMIT clause
CandidatesAll(order, limit) == order

\* the rows the statement returns: the first limit * 3 of the score order
Candidates(order, limit) == Take(order, limit * CandidateFactor)

\* trending_articles for one order of the joined rows
TrendingOf(order, store, lat, lon, limit, t) ==
    Take(SortDesc(GeoTagged(store, Candidates(order, limit)), store, lat, lon, t), limit)

\* trending_articles(session, lat, lon, limit): every list it may return at time t
trending_articles(store, lat, lon, limit, t) ==
    { TrendingOf(order, store, lat, lon, limit, t) : order \in ScoreOrders(store, t) }


(***************************************************************************)
(* services.py: _cache_key.                                                *)
(***************************************************************************)
\* Python's round(n / d) for d > 0: to the nearest integer, a tie to the even one
round(n, d) ==
    LET q == n \div d
        r == n % d
    IN  IF 2 * r < d THEN q
        ELSE IF 2 * r > d THEN q + 1
        ELSE IF q % 2 = 0 THEN q ELSE q + 1

\* f"{lat_bucket:.2f}:{lon_bucket:.2f}": the two buckets in hundredths of a degree
_cache_key(lat, lon) ==
    LET precision == trending_cluster_precision
        lat_bucket == round(lat, precision) * precision
        lon_bucket == round(lon, precision) * precision
    IN  <<lat_bucket * 25, lon_bucket * 25>>

(***************************************************************************)
(* services.py:31: _trending_cache = TTLCache(maxsize, ttl).               *)
(* The cache is the sequence of its entries in the order of TTLCache's     *)
(* links, least recently used first; a link expires once the timer is no   *)
(* longer below its expiry time.                                           *)
(***************************************************************************)
HasKey(c, key) == \E i \in 1..Len(c) : c[i].key = key

EntryOf(c, key) == c[CHOOSE i \in 1..Len(c) : c[i].key = key]

Without(c, key) == SelectSeq(c, LAMBDA e : e.key # key)

\* a membership test that forgets the expiry time
ContainsStale(c, key, t) == HasKey(c, key)

\* a membership test that compares the expiry time with the wrong clock value
ContainsLate(c, key, t) ==
    HasKey(c, key) /\ t + trending_cache_ttl_seconds < EntryOf(c, key).expires

\* TTLCache.__contains__: the key is present and its link has not expired
Contains(c, key, t) == HasKey(c, key) /\ t < EntryOf(c, key).expires

\* a lookup that leaves the order of the links alone
MoveToEndNot(c, key) == c

\* TTLCache.__getlink: a looked-up link becomes the most recently used
MoveToEnd(c, key) ==
    IF HasKey(c, key) THEN Without(c, key) \o <<EntryOf(c, key)>> ELSE c

\* TTLCache.expire(time): every link that has expired is removed
Expire(c, t) == SelectSeq(c, LAMBDA e : t < e.expires)

RECURSIVE PopItems(_)
\* Cache.__setitem__: while the cache is full, popitem() removes the least
\* recently used entry
PopItems(c) == IF Len(c) + 1 > MaxSize THEN PopItems(Tail(c)) ELSE c

\* TTLCache.__setitem__ at timer value t
SetItem(c, key, value, t) ==
    LET live == Expire(c, t)
        entry == [key |-> key, value |-> value, expires |-> t + trending_cache_ttl_seconds]
    IN  IF HasKey(live, key)
        THEN Without(live, key) \o <<entry>>
        ELSE PopItems(live) \o <<entry>>

\* the entries popitem() removes in SetItem for want of room
Evicted(c, key, t) ==
    LET live == Expire(c, t)
    IN  IF HasKey(live, key) THEN <<>>
        ELSE SubSeq(live, 1, Len(live) - Len(PopItems(live)))

(***************************************************************************)
(* The record store the cache is exercised against.  a1 lies at the origin *)
(* and its event crosses the one hour mark just after time 0, so that its  *)
(* score drops while the clock runs; a2 lies half a degree north with a    *)
(* score in between, so that the ranking depends on the time and on where  *)
(* in a bucket the query lies; a3 has the highest score and no coordinates.*)
(***************************************************************************)
Store0 ==
    [articles |-> [a1 |-> [latitude |-> Some(0), longitude |-> Some(0)],
                   a2 |-> [latitude |-> Some(2), longitude |-> Some(0)],
                   a3 |-> [latitude |-> None, longitude |-> None]],
     events |-> << [article_id |-> "a1", weight |-> 2, timestamp |-> -3450],
                   [article_id |-> "a2", weight |-> 3, timestamp |-> -4000],
                   [article_id |-> "a3", weight |-> 5, timestamp |-> -60] >>]

\* The coordinates callers ask for: two points of the bucket at the origin (the
\* second one rounds to it from a tie), and one point in each of MaxSize more
\* buckets to the north.
QueryPoints == {<<0, 0>>, <<1, 1>>} \cup { <<2 * i, 0>> : i \in 1..MaxSize }
Limits == 1..MaxLimit
Delays == {0, TickStep}

NoCall == [outcome |-> "none"]
NoTrend == [called |-> FALSE]
NoParsed == [status |-> "none"]
NoDispatch == [strategy |-> "none"]

\* The request threads.  The trending endpoint is a plain def (main.py:89-91),
\* which the framework runs on its thread pool, so that calls of
\* get_trending_articles overlap; the claims about them speak of two callers.
Callers == {"c1", "c2"}
Idle == [pc |-> "idle"]
NoCallers == [c \in Callers |-> Idle]

Init ==
    /\ now = 0
    /\ cache = <<>>
    /\ lastCall = NoCall
    /\ used = <<>>
    /\ db = Store0
    /\ trend = NoTrend
    /\ parsed = NoParsed
    /\ dispatch = NoDispatch
    /\ callers = NoCallers

\* key k has just been used
Touch(u, k) == SelectSeq(u, LAMBDA x : x # k) \o <<k>>

(***************************************************************************)
(* services.py: get_trending_articles(lat, lon, limit).                    *)
(* d is the time that passes after the membership test (line 113): until   *)
(* the read (line 114) on a hit, until the store (line 117), which comes   *)
(* after the computation, on a miss.                                       *)
(***************************************************************************)
get_trending_articles(lat, lon, limit, d) ==
    \E key \in {_cache_key(lat, lon)} :
    \E pre \in {IF HasKey(cache, key) THEN Some(EntryOf(cache, key)) ELSE None} :
    \E call \in {[lat |-> lat, lon |-> lon, limit |-> limit, key |-> key,
                  pre |-> pre, start |-> now]} :
        /\ now + d <= MaxTime
        /\ now' = now + d
        /\ IF Contains(cache, key, now)
           THEN /\ cache' = MoveToEnd(cache, key)
                /\ used' = IF now' < ValueOf(pre).expires THEN Touch(used, key) ELSE used
                /\ lastCall' =
                     IF now' < ValueOf(pre).expires
                     THEN call @@ [outcome |-> "hit", result |-> ValueOf(pre).value,
                                   computed |-> FALSE, evicted |-> <<>>, end |-> now']
                     ELSE call @@ [outcome |-> "KeyError", result |-> None,
                                   computed |-> FALSE, evicted |-> <<>>, end |-> now']
           ELSE \E articles \in trending_articles(db, lat, lon, limit, now) :
                  /\ cache' = SetItem(cache, key, articles, now')
                  /\ used' = SelectSeq(Touch(used, key),
                                       LAMBDA k : HasKey(cache', k))
                  /\ lastCall' =
                       call @@ [outcome |-> "miss", result |-> articles,
                                computed |-> TRUE,
                                evicted |-> Evicted(cache, key, now'), end |-> now']

GetTrendingArticles ==
    /\ \E p \in QueryPoints, limit \in Limits, d \in Delays :
         get_trending_articles(p[1], p[2], limit, d)
    /\ UNCHANGED <<db, trend, parsed, dispatch, callers>>

\* time passes between requests
Tick ==
    /\ now + TickStep <= MaxTime
    /\ now' = now + TickStep
    /\ UNCHANGED <<cache, lastCall, used, db, trend, parsed, dispatch, callers>>

Next == GetTrendingArticles \/ Tick

Spec == Init /\ [][Next]_vars


(***************************************************************************)
(* repository.py: trending_articles on its own, against every record store *)
(* of four articles in which each article is untagged, has a latitude      *)
(* only, or lies at one of two points, and has a fresh view, a fresh view  *)
(* and an hour-old share, a click exactly 24 hours old, or a view one      *)
(* second older than that.  Articles are interchangeable, so the stores    *)
(* are taken with the articles in the order of their kinds.                *)
(***************************************************************************)
ArticleIds == <<"a1", "a2", "a3", "a4">>

Places ==
    << [latitude |-> None, longitude |-> None],
       [latitude |-> Some(0), longitude |-> None],
       [latitude |-> Some(0), longitude |-> Some(0)],
       [latitude |-> Some(1), longitude |-> Some(0)] >>

Histories ==
    << << [weight |-> 2, timestamp |-> 0] >>,
       << [weight |-> 2, timestamp |-> 0], [weight |-> 5, timestamp |-> -3600] >>,
       << [weight |-> 3, timestamp |-> -WindowSeconds] >>,
       << [weight |-> 2, timestamp |-> -WindowSeconds - 1] >> >>

Kinds == (1..Len(Places)) \X (1..Len(Histories))

KindIndex(k) == (k[1] - 1) * Len(Histories) + k[2]

RECURSIVE EventsOf(_, _)
\* the interaction rows of the articles from the i-th on
EventsOf(kind, i) ==
    IF i > Len(ArticleIds) THEN <<>>
    ELSE LET h == Histories[kind[i][2]]
         IN  [j \in 1..Len(h) |-> h[j] @@ [article_id |-> ArticleIds[i]]]
               \o EventsOf(kind, i + 1)

StoreOf(kind) ==
    [articles |-> [id \in {ArticleIds[i] : i \in 1..Len(ArticleIds)} |->
                     Places[kind[CHOOSE i \in 1..Len(ArticleIds) : ArticleIds[i] = id][1]]],
     events |-> EventsOf(kind, 1)]

Stores ==
    { StoreOf(kind) : kind \in
        { k \in [1..Len(ArticleIds) -> Kinds] :
            \A i \in 1..(Len(ArticleIds) - 1) : KindIndex(k[i]) <= KindIndex(k[i + 1]) } }

TrendingPoints == {<<0, 0>>, <<2, 0>>}

InitTrending ==
    /\ now = 0
    /\ cache = <<>>
    /\ lastCall = NoCall
    /\ used = <<>>
    /\ db \in Stores
    /\ trend = NoTrend
    /\ parsed = NoParsed
    /\ dispatch = NoDispatch
    /\ callers = NoCallers

\* the call trending_articles(session, lat, lon, limit) on the store drawn
TrendingArticles ==
    /\ ~trend.called
    /\ \E p \in TrendingPoints, limit \in Limits :
         \E order \in ScoreOrders(db, now) :
            trend' = [called |-> TRUE, lat |-> p[1], lon |-> p[2], limit |-> limit,
                      candidates |-> Candidates(order, limit),
                      result |-> TrendingOf(order, db, p[1], p[2], limit, now)]
    /\ UNCHANGED <<now, cache, lastCall, used, db, parsed, dispatch, callers>>

NextTrending == TrendingArticles

SpecTrending == InitTrending /\ [][NextTrending]_vars

(***************************************************************************)
(* Strings.  A Python str is the sequence of its characters.               *)
(***************************************************************************)
UpperCase == <<"A", "B", "C", "D", "E", "F", "G", "H", "I", "J", "K", "L", "M", "N", "O", "P", "Q", "R", "S", "T", "U", "V", "W", "X", "Y", "Z">>
LowerCase == <<"a", "b", "c", "d", "e", "f", "g", "h", "i", "j", "k", "l", "m", "n", "o", "p", "q", "r", "s", "t", "u", "v", "w", "x", "y", "z">>
Digits == {"0", "1", "2", "3", "4", "5", "6", "7", "8", "9"}

Range(s) == { s[i] : i \in 1..Len(s) }

IsUpper(c) == c \in Range(UpperCase)
IsLetter(c) == c \in Range(UpperCase) \cup Range(LowerCase)
\* \w of the re module
IsWordChar(c) == IsLetter(c) \/ c \in Digits \/ c = "_"
\* \s of the re module, str.split() and str.strip()
IsSpace(c) == c = " "

LowerChar(c) ==
    IF IsUpper(c) THEN LowerCase[CHOOSE i \in 1..Len(UpperCase) : UpperCase[i] = c] ELSE c
UpperChar(c) ==
    IF c \in Range(LowerCase)
    THEN UpperCase[CHOOSE i \in 1..Len(LowerCase) : LowerCase[i] = c] ELSE c

\* str.lower()
Lower(s) == [i \in 1..Len(s) |-> LowerChar(s[i])]

\* str.capitalize()
Capitalize(s) == [i \in 1..Len(s) |-> IF i = 1 THEN UpperChar(s[i]) ELSE LowerChar(s[i])]

\* needle in s
IsSubstring(needle, s) ==
    \E i \in 1..(Len(s) - Len(needle) + 1) : SubSeq(s, i, i + Len(needle) - 1) = needle

RECURSIVE RunEnd(_, _, _)
\* the last position of the run of characters of class letters (TRUE) or \w
\* (FALSE) that begins at i, or i - 1 when there is none
RunEnd(s, i, letters) ==
    IF i <= Len(s) /\ (IF letters THEN IsLetter(s[i]) ELSE IsWordChar(s[i]))
    THEN RunEnd(s, i + 1, letters) ELSE i - 1

RECURSIVE WordTokens(_, _)
\* re.split(r"\W+", s) without its empty strings: the maximal runs of \w from i on
WordTokens(s, i) ==
    IF i > Len(s) THEN <<>>
    ELSE IF IsWordChar(s[i])
         THEN <<SubSeq(s, i, RunEnd(s, i, FALSE))>> \o WordTokens(s, RunEnd(s, i, FALSE) + 1)
         ELSE WordTokens(s, i + 1)

RECURSIVE SplitSpace(_, _)
\* str.split(): the maximal runs of non-space characters from i on
SplitSpace(s, i) ==
    IF i > Len(s) THEN <<>>
    ELSE IF IsSpace(s[i]) THEN SplitSpace(s, i + 1)
    ELSE LET e == CHOOSE j \in i..Len(s) :
                    /\ \A k \in i..j : ~IsSpace(s[k])
                    /\ (j = Len(s) \/ IsSpace(s[j + 1]))
         IN  <<SubSeq(s, i, e)>> \o SplitSpace(s, e + 1)

RECURSIVE Join(_)
\* " ".join(words)
Join(words) ==
    IF words = <<>> THEN <<>>
    ELSE IF Len(words) = 1 THEN words[1]
    ELSE words[1] \o <<" ">> \o Join(Tail(words))


\* the string literals of the code and of the queries the model draws
S_near == <<"n", "e", "a", "r">>
S_nearby == <<"n", "e", "a", "r", "b", "y">>
S_around == <<"a", "r", "o", "u", "n", "d">>
S_top == <<"t", "o", "p">>
S_latest == <<"l", "a", "t", "e", "s", "t">>
S_from == <<"f", "r", "o", "m">>
S_news == <<"n", "e", "w", "s">>
S_score == <<"s", "c", "o", "r", "e">>
S_the == <<"t", "h", "e">>
S_in == <<"i", "n">>
S_me == <<"m", "e">>
S_Near == <<"N", "e", "a", "r">>
S_stop == <<"s", "t", "o", "p">>
S_News == <<"N", "e", "w", "s">>
S_technology == <<"t", "e", "c", "h", "n", "o", "l", "o", "g", "y">>
S_decimal == <<"0", ".", "8">>
S_abc == <<"a", "b", "c">>
S_seven == <<"7">>
S_empty == <<>>

\* llm.py: the place names _fallback_parse knows
Gazetteer ==
    { <<"p", "a", "l", "o", " ", "a", "l", "t", "o">>,
      <<"s", "a", "n", " ", "f", "r", "a", "n", "c", "i", "s", "c", "o">>,
      <<"p", "a", "r", "i", "s">>,
      <<"t", "o", "k", "y", "o">>,
      <<"b", "e", "r", "l", "i", "n">>,
      <<"l", "o", "n", "d", "o", "n">>,
      <<"f", "r", "e", "s", "n", "o">>,
      <<"n", "e", "w", " ", "y", "o", "r", "k", " ", "t", "i", "m", "e", "s">> }

\* main.py: _CATEGORY_KEYWORDS
_CATEGORY_KEYWORDS ==
    { <<"t", "e", "c", "h", "n", "o", "l", "o", "g", "y">>,
      <<"b", "u", "s", "i", "n", "e", "s", "s">>,
      <<"w", "o", "r", "l", "d">>,
      <<"g", "e", "n", "e", "r", "a", "l">>,
      <<"l", "o", "c", "a", "l">>,
      <<"e", "n", "v", "i", "r", "o", "n", "m", "e", "n", "t">>,
      <<"p", "o", "l", "i", "c", "y">>,
      <<"s", "u", "s", "t", "a", "i", "n", "a", "b", "i", "l", "i", "t", "y">> }

\* llm.py: the words _fallback_parse leaves out of the keywords
StopWords == {S_the, S_in, S_from, S_near, S_me}

(***************************************************************************)
(* llm.py: LLMClient._fallback_parse.                                      *)
(***************************************************************************)
Intents == {"category", "source", "score", "search", "nearby"}

\* a parser that tests for "top" and "latest" before "near" and "around"
FallbackIntentTopFirst(lowered) ==
    IF IsSubstring(S_top, lowered) \/ IsSubstring(S_latest, lowered) THEN "category"
    ELSE IF IsSubstring(S_near, lowered) \/ IsSubstring(S_nearby, lowered)
            \/ IsSubstring(S_around, lowered) THEN "nearby"
    ELSE IF IsSubstring(S_from, lowered) /\ IsSubstring(S_news, lowered) THEN "source"
    ELSE IF IsSubstring(S_score, lowered) THEN "score"
    ELSE "search"

\* the if/elif chain over the lower-cased text
FallbackIntent(lowered) ==
    IF IsSubstring(S_near, lowered) \/ IsSubstring(S_nearby, lowered)
       \/ IsSubstring(S_around, lowered) THEN "nearby"
    ELSE IF IsSubstring(S_top, lowered) \/ IsSubstring(S_latest, lowered) THEN "category"
    ELSE IF IsSubstring(S_from, lowered) /\ IsSubstring(S_news, lowered) THEN "source"
    ELSE IF IsSubstring(S_score, lowered) THEN "score"
    ELSE "search"

\* [A-Z][a-zA-Z]+ matches at position i
CapitalizedAt(s, i) == i + 1 <= Len(s) /\ IsUpper(s[i]) /\ IsLetter(s[i + 1])

RECURSIVE EntityEnd(_, _)
\* (?:\s[A-Z][a-zA-Z]+)* from the end e of a capitalized word: the end of the match
EntityEnd(s, e) ==
    IF e + 1 <= Len(s) /\ IsSpace(s[e + 1]) /\ CapitalizedAt(s, e + 2)
    THEN EntityEnd(s, RunEnd(s, e + 3, TRUE))
    ELSE e

RECURSIVE FindEntities(_, _)
\* re.findall(r"[A-Z][a-zA-Z]+(?:\s[A-Z][a-zA-Z]+)*", s) from position i on
FindEntities(s, i) ==
    IF i > Len(s) THEN <<>>
    ELSE IF CapitalizedAt(s, i)
         THEN LET e == EntityEnd(s, RunEnd(s, i + 1, TRUE))
              IN  <<SubSeq(s, i, e)>> \o FindEntities(s, e + 1)
         ELSE FindEntities(s, i + 1)

_fallback_parse(query) ==
    LET lowered == Lower(query)
        entities == FindEntities(query, 1)
    IN  [entities |-> entities,
         keywords |-> SelectSeq(WordTokens(lowered, 1), LAMBDA w : w \notin StopWords),
         locations |-> SelectSeq(entities, LAMBDA e : Lower(e) \in Gazetteer),
         intent |-> FallbackIntent(lowered)]

(***************************************************************************)
(* llm.py: LLMClient.analyze_query.                                        *)
(* What the external model client does is an input: the call fails (a      *)
(* network error, a timeout), or it returns a text that is not JSON, a     *)
(* JSON array, or a JSON object.  A field of the object is missing, a list *)
(* of strings, or a number.                                                *)
(***************************************************************************)
Missing == [shape |-> "missing", items |-> <<>>]
ListOf(xs) == [shape |-> "list", items |-> xs]
Number == [shape |-> "number", items |-> <<>>]

NoReply == [kind |-> "none", intent |-> None,
            entities |-> Missing, keywords |-> Missing, locations |-> Missing]

Failure == [NoReply EXCEPT !.kind = "failure"]
NotJson == [NoReply EXCEPT !.kind = "text"]
JsonArray == [NoReply EXCEPT !.kind = "array"]

ReplyIntents == Intents \cup {"weather"}

Objects ==
    [kind : {"object"},
     intent : {None} \cup { Some(i) : i \in ReplyIntents },
     entities : {Missing, ListOf(<<>>), ListOf(<<S_News>>), ListOf(<<S_empty>>), Number},
     keywords : {Missing, ListOf(<<S_technology>>), ListOf(<<S_decimal>>), ListOf(<<S_abc>>)},
     locations : {Missing}]

Replies == {Failure, NotJson, JsonArray} \cup Objects

\* str(data.get("intent", "search"))
IntentOf(data) == IF data.intent = None THEN "search" ELSE ValueOf(data.intent)

\* [str(x) for x in data.get(field, [])] raises TypeError on a number
Iterable(field) == field.shape # "number"

Raised(error) ==
    [status |-> "raised", error |-> error, intent |-> "", entities |-> <<>>,
     keywords |-> <<>>, locations |-> <<>>]

Ok(q) == [status |-> "ok", error |-> ""] @@ q

analyze_query(configured, query, reply) ==
    IF ~configured THEN Ok(_fallback_parse(query))
    ELSE IF reply.kind = "failure" THEN Raised("APIError")
    ELSE IF reply.kind = "text" THEN Raised("JSONDecodeError")
    ELSE IF reply.kind = "array" THEN Raised("AttributeError")
    ELSE IF ~(Iterable(reply.entities) /\ Iterable(reply.locations)
              /\ Iterable(reply.keywords)) THEN Raised("TypeError")
    ELSE Ok([intent |-> IntentOf(reply),
                    entities |-> reply.entities.items,
                    locations |-> reply.locations.items,
                    keywords |-> reply.keywords.items])

(***************************************************************************)
(* The queries drawn: up to MaxWords words, joined by single spaces.       *)
(***************************************************************************)
Vocabulary ==
    {S_Near, S_around, S_stop, S_latest, S_from, S_News, S_score, S_technology, S_decimal}

QueryTexts ==
    { Join(ws) : ws \in UNION { [1..n -> Vocabulary] : n \in 0..MaxWords } }

\* the queries drawn when a model client is configured, which does not read them
ShortTexts == { Join(ws) : ws \in UNION { [1..n -> Vocabulary] : n \in 0..1 } }

\* what analyze_query is called with: without a client the reply is not read
ParserInputs ==
    ({FALSE} \X QueryTexts \X {NoReply}) \cup ({TRUE} \X ShortTexts \X Replies)

(***************************************************************************)
(* float(value), as far as the values drawn go: surrounding spaces, a sign,*)
(* decimal digits and at most one point, with at least one digit.  The     *)
(* result is in thousandths.                                               *)
(***************************************************************************)
DigitSeq == <<"0", "1", "2", "3", "4", "5", "6", "7", "8", "9">>
DigitValue(c) == (CHOOSE i \in 1..Len(DigitSeq) : DigitSeq[i] = c) - 1

RECURSIVE Strip(_)
\* str.strip()
Strip(s) ==
    IF s = <<>> THEN s
    ELSE IF IsSpace(Head(s)) THEN Strip(Tail(s))
    ELSE IF IsSpace(s[Len(s)]) THEN Strip(SubSeq(s, 1, Len(s) - 1))
    ELSE s

Unsigned(s) == IF s # <<>> /\ Head(s) \in {"+", "-"} THEN Tail(s) ELSE s

PointAt(s) == IF \E i \in 1..Len(s) : s[i] = "." THEN CHOOSE i \in 1..Len(s) : s[i] = "." ELSE 0

RECURSIVE DigitsValue(_)
DigitsValue(s) == IF s = <<>> THEN 0 ELSE 10 * DigitsValue(SubSeq(s, 1, Len(s) - 1)) + DigitValue(s[Len(s)])

\* float(value) does not raise ValueError
ParsesAsFloat(value) ==
    LET body == Unsigned(Strip(value))
    IN  /\ \A i \in 1..Len(body) : body[i] \in Digits \cup {"."}
        /\ Cardinality({ i \in 1..Len(body) : body[i] = "." }) <= 1
        /\ \E i \in 1..Len(body) : body[i] \in Digits

\* float(value), in thousandths, for a value that parses
FloatOf(value) ==
    LET stripped == Strip(value)
        body == Unsigned(stripped)
        p == PointAt(body)
        whole == IF p = 0 THEN body ELSE SubSeq(body, 1, p - 1)
        frac == IF p = 0 THEN <<>> ELSE SubSeq(body, p + 1, Min(Len(body), p + 3))
        padded == frac \o SubSeq(<<"0", "0", "0">>, 1, 3 - Len(frac))
        magnitude == 1000 * DigitsValue(whole) + DigitsValue(padded)
    IN  IF Head(stripped) = "-" THEN -magnitude ELSE magnitude

(***************************************************************************)
(* services.py: resolve_query.  The strategy run is recorded with the      *)
(* arguments it gets; a field a strategy does not take is left at its      *)
(* default.                                                                *)
(***************************************************************************)
\* a Python condition "value" on an optional string
Truthy(value) == value # None /\ ValueOf(value) # <<>>

\* value or ""
OrEmpty(value) == IF Truthy(value) THEN ValueOf(value) ELSE <<>>

DefaultThreshold == 700
NearbyRadiusKm == 10

Strategy(name, limit) ==
    [strategy |-> name, text |-> <<>>, threshold |-> 0, lat |-> None, lon |-> None,
     radius_km |-> 0, limit |-> limit]

\* a dispatcher that sends a score query with an unreadable value to search
resolve_query_strict(intent, value, lat, lon, limit) ==
    IF intent = "category" /\ Truthy(value)
    THEN [Strategy("category", limit) EXCEPT !.text = ValueOf(value)]
    ELSE IF intent = "source" /\ Truthy(value)
    THEN [Strategy("source", limit) EXCEPT !.text = ValueOf(value)]
    ELSE IF intent = "score" /\ Truthy(value) /\ ParsesAsFloat(ValueOf(value))
    THEN [Strategy("score", limit) EXCEPT !.threshold = FloatOf(ValueOf(value))]
    ELSE IF intent = "nearby" /\ lat # None /\ lon # None
    THEN [Strategy("nearby", limit) EXCEPT !.lat = lat, !.lon = lon,
                                           !.radius_km = NearbyRadiusKm]
    ELSE [Strategy("search", limit) EXCEPT !.text = OrEmpty(value)]

resolve_query(intent, value, lat, lon, limit) ==
    IF intent = "category" /\ Truthy(value)
    THEN [Strategy("category", limit) EXCEPT !.text = ValueOf(value)]
    ELSE IF intent = "source" /\ Truthy(value)
    THEN [Strategy("source", limit) EXCEPT !.text = ValueOf(value)]
    ELSE IF intent = "score" /\ Truthy(value)
    THEN [Strategy("score", limit) EXCEPT
            !.threshold = IF ParsesAsFloat(ValueOf(value))
                          THEN FloatOf(ValueOf(value)) ELSE DefaultThreshold]
    ELSE IF intent = "nearby" /\ lat # None /\ lon # None
    THEN [Strategy("nearby", limit) EXCEPT !.lat = lat, !.lon = lon,
                                           !.radius_km = NearbyRadiusKm]
    ELSE IF intent = "search"
    THEN [Strategy("search", limit) EXCEPT !.text = OrEmpty(value)]
    ELSE [Strategy("search", limit) EXCEPT !.text = OrEmpty(value)]

\* repository.py: list_by_search returns [] at once when the query has no tokens
NoTokens(query) == SplitSpace(Lower(query), 1) = <<>>

\* whether the strategy may find articles (found: the record store has some)
MayFind(run, found) == IF run.strategy = "search" /\ NoTokens(run.text) THEN FALSE ELSE found

(***************************************************************************)
(* main.py: resolve_user_query, the derivation of value from the parsed    *)
(* intent.                                                                 *)
(***************************************************************************)
\* next((x for x in xs if test(x)), None)
First(xs, Holds(_)) ==
    LET matches == SelectSeq(xs, Holds)
    IN  IF matches = <<>> THEN None ELSE Some(Head(matches))

IsCategoryName(kw) == Lower(kw) \in _CATEGORY_KEYWORDS

\* token.replace('.', '', 1).isdigit()
IsNumeric(token) ==
    LET p == PointAt(token)
        rest == IF p = 0 THEN token ELSE SubSeq(token, 1, p - 1) \o SubSeq(token, p + 1, Len(token))
    IN  rest # <<>> /\ \A i \in 1..Len(rest) : rest[i] \in Digits

DerivedValue(p, query) ==
    IF p.intent = "category"
    THEN LET value == First(p.keywords, IsCategoryName)
         IN  IF Truthy(value) THEN Some(Capitalize(ValueOf(value))) ELSE value
    ELSE IF p.intent = "source" /\ p.entities # <<>>
    THEN Some(p.entities[1])
    ELSE IF p.intent = "score"
    THEN First(p.keywords, IsNumeric)
    ELSE Some(query)

\* QueryRequest.max_results, at its default
DefaultMaxResults == 5

Coordinates == {<<None, None>>, <<Some(0), None>>, <<Some(0), Some(0)>>}

\* the values resolve_query is called with directly
Values ==
    {None} \cup { Some(v) : v \in {S_empty, S_abc, S_decimal, S_seven, S_technology,
                                   <<" ", "7">>, <<".">>, <<"-", "1">>, <<"7", ".">>} }

InitQuery ==
    /\ now = 0
    /\ cache = <<>>
    /\ lastCall = NoCall
    /\ used = <<>>
    /\ db = Store0
    /\ trend = NoTrend
    /\ parsed = NoParsed
    /\ dispatch = NoDispatch
    /\ callers = NoCallers

\* one call llm.analyze_query(query)
AnalyzeQuery ==
    /\ parsed = NoParsed /\ dispatch = NoDispatch
    /\ \E in \in ParserInputs :
         parsed' = [configured |-> in[1], query |-> in[2], reply |-> in[3]]
                     @@ analyze_query(in[1], in[2], in[3])
    /\ UNCHANGED <<now, cache, lastCall, used, db, trend, dispatch, callers>>

(***************************************************************************)
(* Properties of the trending cache, checked under Spec.                   *)
(***************************************************************************)
Returned == lastCall.outcome \in {"hit", "miss"}

\* the call found an entry under its key that stayed unexpired until it returned
PreFresh ==
    /\ lastCall.outcome # "none"
    /\ lastCall.pre # None
    /\ lastCall.end < ValueOf(lastCall.pre).expires

\* the call found an entry under its key that had expired when it began
PreExpired ==
    /\ lastCall.outcome # "none"
    /\ lastCall.pre # None
    /\ lastCall.start >= ValueOf(lastCall.pre).expires

\* C1: a call whose bucket key holds an entry, stored by an earlier call of the
\* same bucket, that has not expired by the time the call returns, returns the
\* list that entry holds and does not run the trending computation; the entry
\* stays in the cache as it was.
C1_HitReturnsStored ==
    PreFresh =>
        /\ lastCall.outcome = "hit"
        /\ lastCall.result = ValueOf(lastCall.pre).value
        /\ ~lastCall.computed
        /\ HasKey(cache, lastCall.key)
        /\ EntryOf(cache, lastCall.key) = ValueOf(lastCall.pre)

\* a hit from coordinates and a time for which the computation would give
\* another list than the one returned
C1_Witness ==
    /\ PreFresh
    /\ lastCall.outcome = "hit"
    /\ lastCall.lat = 1
    /\ lastCall.result \notin
         trending_articles(db, lastCall.lat, lastCall.lon, lastCall.limit, lastCall.start)

\* C2: a call that finds the entry of its bucket expired runs the trending
\* computation and stores its result under the key with the expiry time
\* (time of the store) + TTL; and a list returned from the cache comes from an
\* entry that is unexpired when it is returned.
C2_ExpiredRecomputed ==
    /\ PreExpired =>
         /\ lastCall.outcome = "miss"
         /\ lastCall.computed
         /\ lastCall.result \in
              trending_articles(db, lastCall.lat, lastCall.lon, lastCall.limit,
                                lastCall.start)
         /\ HasKey(cache, lastCall.key)
         /\ EntryOf(cache, lastCall.key) =
              [key |-> lastCall.key, value |-> lastCall.result,
               expires |-> lastCall.end + trending_cache_ttl_seconds]
    /\ (lastCall.outcome = "hit") =>
         /\ lastCall.pre # None
         /\ lastCall.end < ValueOf(lastCall.pre).expires

\* a recomputation after expiry that stored another list than the expired one
C2_Witness ==
    /\ PreExpired
    /\ lastCall.outcome = "miss"
    /\ lastCall.result # ValueOf(lastCall.pre).value
    /\ EntryOf(cache, lastCall.key).expires > ValueOf(lastCall.pre).expires

Entries(c) == { c[i] : i \in 1..Len(c) }

\* the store of a new bucket that finds the cache full of unexpired entries
FullMiss ==
    /\ lastCall'.outcome = "miss"
    /\ ~HasKey(cache, lastCall'.key)
    /\ HasKey(cache', lastCall'.key)
    /\ Len(cache) = MaxSize
    /\ Expire(cache, now') = cache

\* C3: the cache never holds more than its capacity of entries, and a miss on
\* a new bucket that finds the cache full of unexpired entries evicts the
\* entry whose last hit or store lies furthest back, and keeps all the others.
C3_CapacityAndLru ==
    /\ [](Len(cache) <= MaxSize)
    /\ [][FullMiss =>
            LET lru == EntryOf(cache, Head(used))
            IN  /\ Entries(cache') \cap Entries(cache) = Entries(cache) \ {lru}
                /\ Entries(cache') \ Entries(cache) = {cache'[Len(cache')]}
                /\ cache'[Len(cache')].key = lastCall'.key
                /\ lastCall'.evicted = <<lru>>]_vars

\* an eviction that removed a younger entry and kept an older one, because
\* the older one had been hit since
C3_Witness ==
    /\ lastCall.outcome = "miss"
    /\ Len(lastCall.evicted) = 1
    /\ Len(cache) = MaxSize
    /\ \E i \in 1..Len(cache) : cache[i].expires < lastCall.evicted[1].expires

\* C4 (as claimed): every call get_trending_articles(lat, lon, limit) returns
\* at most limit articles.
C4_AtMostLimit == Returned => Len(lastCall.result) <= lastCall.limit


(***************************************************************************)
(* Properties of trending_articles, checked under SpecTrending.            *)
(***************************************************************************)
\* the articles with an interaction no older than 24 hours
Windowed ==
    { id \in DOMAIN db.articles :
        \E i \in 1..Len(db.events) :
            /\ db.events[i].article_id = id
            /\ now - db.events[i].timestamp <= WindowSeconds }

\* the number of windowed articles with a base score above that of id
Above(id) ==
    Cardinality({ b \in Windowed : BaseScore(db, b, now) > BaseScore(db, id, now) })

Tagged(id) == db.articles[id].latitude # None /\ db.articles[id].longitude # None

\* C10: the list trending_articles returns (i) holds only articles with an
\* interaction inside the 24 hour window that fewer than limit * 3 such
\* articles beat on base score, (ii) holds only articles with both
\* coordinates, (iii) is in order of non-increasing final score, (iv) has at
\* most limit elements, none twice; so it is empty when no event is in the
\* window and when limit * 3 untagged articles beat every tagged one.
C10_TrendingList ==
    trend.called =>
        LET r == trend.result
        IN  /\ \A i \in 1..Len(r) :
                 /\ r[i] \in Windowed
                 /\ Above(r[i]) < trend.limit * 3
                 /\ Tagged(r[i])
            /\ \A i \in 1..(Len(r) - 1) :
                 FinalScore(db, r[i], trend.lat, trend.lon, now)
                   >= FinalScore(db, r[i + 1], trend.lat, trend.lon, now)
            /\ Len(r) <= trend.limit
            /\ \A i, j \in 1..Len(r) : i # j => r[i] # r[j]
            /\ (Windowed = {}) => r = <<>>
            /\ (\A i \in 1..Len(trend.candidates) : ~Tagged(trend.candidates[i]))
                 => r = <<>>

\* an empty list although a tagged article has an event in the window: the
\* limit * 3 candidates are all untagged and the tagged one ranks below them
C10_Witness ==
    /\ trend.called
    /\ trend.result = <<>>
    /\ Len(trend.candidates) = trend.limit * 3
    /\ \E id \in Windowed : Tagged(id)

\* one call resolve_query(intent, value, lat, lon, limit)
ResolveQuery ==
    /\ parsed = NoParsed /\ dispatch = NoDispatch
    /\ \E intent \in ReplyIntents, value \in Values, c \in Coordinates,
          limit \in Limits, found \in BOOLEAN :
         \E run \in {resolve_query(intent, value, c[1], c[2], limit)} :
             dispatch' = [via |-> "resolve_query", intent |-> intent, value |-> value,
                          given |-> c, query |-> <<>>,
                          outcome |-> IF MayFind(run, found) THEN "articles" ELSE "empty"]
                           @@ run
    /\ UNCHANGED <<now, cache, lastCall, used, db, trend, parsed, callers>>

\* the request's record of the strategy run, or of the error analyze_query raised
Dispatched(p, query, value, c, run, found) ==
    IF p.status = "raised"
    THEN [via |-> "resolve_user_query", intent |-> "", value |-> None,
          given |-> c, query |-> query, outcome |-> p.error]
           @@ Strategy("none", DefaultMaxResults)
    ELSE [via |-> "resolve_user_query", intent |-> p.intent,
          value |-> value, given |-> c, query |-> query,
          outcome |-> IF MayFind(run, found) THEN "articles" ELSE "HTTPException 404"]
           @@ run

\* one request POST /api/v1/news/query
ResolveUserQuery ==
    /\ parsed = NoParsed /\ dispatch = NoDispatch
    /\ \E in \in ParserInputs :
         \E p \in {analyze_query(in[1], in[2], in[3])} :
         \E value \in {DerivedValue(p, in[2])} :
         \E c \in Coordinates :
         \E run \in {resolve_query(p.intent, value, c[1], c[2], DefaultMaxResults)} :
         \E found \in BOOLEAN :
            /\ parsed' = [configured |-> in[1], query |-> in[2], reply |-> in[3]] @@ p
            /\ dispatch' = Dispatched(p, in[2], value, c, run, found)
    /\ UNCHANGED <<now, cache, lastCall, used, db, trend, callers>>

NextQuery == AnalyzeQuery \/ ResolveQuery \/ ResolveUserQuery

SpecQuery == InitQuery /\ [][NextQuery]_vars

(***************************************************************************)
(* Properties of the dispatcher and the intent parser, checked under       *)
(* SpecQuery.                                                              *)
(***************************************************************************)
ViaEntryPoint == dispatch.strategy # "none" /\ dispatch.via = "resolve_user_query"

\* the entry point derived no usable value from the parsed intent
NoUsableValue ==
    \/ parsed.intent = "category" /\ \A i \in 1..Len(parsed.keywords) :
                                       Lower(parsed.keywords[i]) \notin _CATEGORY_KEYWORDS
    \/ parsed.intent = "source" /\ parsed.entities = <<>>
    \/ parsed.intent = "score" /\ \A i \in 1..Len(parsed.keywords) :
                                    ~IsNumeric(parsed.keywords[i])

\* C5 (as claimed): when the entry point parses a query to category, source or
\* score and derives no usable value, the dispatcher runs the search strategy
\* with the raw query text as its query.
C5_FallsBackToRawSearch ==
    (ViaEntryPoint /\ NoUsableValue) =>
        /\ dispatch.strategy = "search"
        /\ dispatch.text = dispatch.query

\* C6: resolve_query runs exactly one strategy for every intent, value and
\* coordinates and never raises: the category or source lookup of value when
\* the intent is category or source and value is non-empty; the score lookup
\* when the intent is score and value is non-empty, with the threshold
\* float(value), or 0.7 when value does not parse; nearby with radius 10 km
\* when the intent is nearby and both coordinates are given; and in every
\* other case the search over value, or over "" when value is absent.
C6_Routing ==
    (dispatch.strategy # "none" /\ dispatch.via = "resolve_query") =>
        LET d == dispatch
            present == d.value # None /\ Len(ValueOf(d.value)) > 0
            lookup == d.intent \in {"category", "source"} /\ present
            score == d.intent = "score" /\ present
            nearby == d.intent = "nearby" /\ d.given[1] # None /\ d.given[2] # None
        IN  /\ d.strategy \in {"category", "source", "score", "nearby", "search"}
            /\ d.outcome \in {"articles", "empty"}
            /\ lookup <=> (d.strategy = d.intent /\ d.strategy \in {"category", "source"})
            /\ lookup => d.text = ValueOf(d.value)
            /\ score <=> d.strategy = "score"
            /\ score => d.threshold =
                          IF ParsesAsFloat(ValueOf(d.value))
                          THEN FloatOf(ValueOf(d.value)) ELSE 700
            /\ (score /\ d.value = Some(S_abc)) => d.threshold = 700
            /\ (score /\ d.value = Some(S_decimal)) => d.threshold = 800
            /\ nearby <=> d.strategy = "nearby"
            /\ nearby => d.radius_km = 10 /\ d.lat = d.given[1] /\ d.lon = d.given[2]
            /\ ~(lookup \/ score \/ nearby) <=> d.strategy = "search"
            /\ d.strategy = "search" =>
                 d.text = IF d.value = None THEN <<>> ELSE ValueOf(d.value)

\* the score intent with a value that does not parse: threshold 0.7
C6_Witness ==
    /\ dispatch.strategy = "score"
    /\ dispatch.via = "resolve_query"
    /\ dispatch.value = Some(S_abc)
    /\ dispatch.threshold = 700

ModelReplied == parsed.status # "none" /\ parsed.configured /\ parsed.reply.kind = "object"

WellShaped ==
    /\ parsed.reply.entities.shape # "number"
    /\ parsed.reply.keywords.shape # "number"
    /\ parsed.reply.locations.shape # "number"

\* C7: whatever intent the reply of the external model holds, analyze_query
\* returns an intent among the five, search standing in for a missing or
\* unrecognized one.
C7_IntentAmongFive ==
    (ModelReplied /\ WellShaped) =>
        /\ parsed.status = "ok"
        /\ parsed.intent \in Intents
        /\ (parsed.reply.intent = None \/ ValueOf(parsed.reply.intent) \notin Intents)
             => parsed.intent = "search"

\* the call of the configured client failed, or its reply is not a JSON
\* object with lists for fields
Malformed ==
    /\ parsed.status # "none"
    /\ parsed.configured
    /\ \/ parsed.reply.kind \in {"failure", "text", "array"}
       \/ ~WellShaped

\* C8 (as claimed): when the configured client fails or replies with a
\* malformed payload, analyze_query raises nothing and returns what the
\* heuristic parser gives for the query.
C8_FallsBackOnFailure ==
    Malformed =>
        /\ parsed.status = "ok"
        /\ parsed.intent = _fallback_parse(parsed.query).intent
        /\ parsed.entities = _fallback_parse(parsed.query).entities
        /\ parsed.keywords = _fallback_parse(parsed.query).keywords
        /\ parsed.locations = _fallback_parse(parsed.query).locations

\* the tests of the heuristic parser in their order of precedence
PrecedenceOrder == <<"nearby", "category", "source", "score", "search">>

Test(i, text) ==
    CASE i = 1 -> IsSubstring(S_near, text) \/ IsSubstring(S_around, text)
      [] i = 2 -> IsSubstring(S_top, text) \/ IsSubstring(S_latest, text)
      [] i = 3 -> IsSubstring(S_from, text) /\ IsSubstring(S_news, text)
      [] i = 4 -> IsSubstring(S_score, text)
      [] OTHER -> TRUE

Heuristic == parsed.status # "none" /\ ~parsed.configured

\* C9: the heuristic parser returns the earliest intent of the order nearby,
\* category, source, score, search whose test holds of the lower-cased text,
\* search having no test; the empty text gets search.
C9_Precedence ==
    Heuristic =>
        LET text == Lower(parsed.query)
            first == CHOOSE i \in 1..5 : Test(i, text) /\ \A j \in 1..(i - 1) : ~Test(j, text)
        IN  /\ parsed.status = "ok"
            /\ parsed.intent = PrecedenceOrder[first]
            /\ parsed.query = <<>> => parsed.intent = "search"

\* a text on which the tests for nearby, category and score all hold
C9_Witness ==
    /\ Heuristic
    /\ Test(1, Lower(parsed.query))
    /\ Test(2, Lower(parsed.query))
    /\ Test(4, Lower(parsed.query))
    /\ parsed.intent = "nearby"


(***************************************************************************)
(* services.py: get_trending_articles run by overlapping callers.  The     *)
(* code takes no lock, so a caller may be overtaken between any two of its *)
(* statements: the membership test (line 113), the read (line 114), the    *)
(* computation (line 116) and the store (line 117).  Each call of a        *)
(* TTLCache method is taken as one step.  Each caller makes one call.      *)
(* The cache is either empty or has been filled to capacity by earlier     *)
(* calls at time 0, the bucket at the origin first.                        *)
(***************************************************************************)
RECURSIVE WarmCaches(_)
\* the caches after calls for the first n buckets at time 0
WarmCaches(n) ==
    IF n = 0 THEN {<<>>}
    ELSE { SetItem(c, _cache_key(2 * (n - 1), 0), articles, 0) :
             c \in WarmCaches(n - 1),
             articles \in trending_articles(Store0, 2 * (n - 1), 0, MaxLimit, 0) }

\* two points of the bucket at the origin, and one of a bucket no warm cache holds
CallerPoints == {<<0, 0>>, <<1, 1>>, <<2 * MaxSize, 0>>}

InitCallers ==
    /\ now = 0
    /\ cache \in WarmCaches(0) \cup WarmCaches(MaxSize)
    /\ lastCall = NoCall
    /\ used = [i \in 1..Len(cache) |-> cache[i].key]
    /\ db = Store0
    /\ trend = NoTrend
    /\ parsed = NoParsed
    /\ dispatch = NoDispatch
    /\ callers = NoCallers

\* the callers that have missed the key and not stored yet
Computing(key) ==
    { o \in Callers : callers[o].pc \in {"compute", "store"} /\ callers[o].key = key }

\* lines 112-113: key = _cache_key(lat, lon); if key in _trending_cache
TestKey(c) ==
    /\ callers[c].pc = "idle"
    /\ \E p \in CallerPoints, limit \in Limits :
       \E key \in {_cache_key(p[1], p[2])} :
         callers' = [callers EXCEPT ![c] =
            [pc |-> IF Contains(cache, key, now) THEN "read" ELSE "compute",
             lat |-> p[1], lon |-> p[2], limit |-> limit, key |-> key,
             tested |-> now, peers |-> Computing(key) \ {c},
             computedAt |-> None, articles |-> None,
             outcome |-> "none", result |-> None, end |-> None]]
    /\ UNCHANGED <<now, cache, lastCall, used, db, trend, parsed, dispatch>>

\* line 114: return _trending_cache[key]
ReadEntry(c) ==
    /\ callers[c].pc = "read"
    /\ \E key \in {callers[c].key} :
         /\ cache' = MoveToEnd(cache, key)
         /\ IF Contains(cache, key, now)
            THEN /\ used' = Touch(used, key)
                 /\ callers' = [callers EXCEPT ![c].pc = "done", ![c].outcome = "hit",
                                               ![c].result = EntryOf(cache, key).value,
                                               ![c].end = Some(now)]
            ELSE /\ used' = used
                 /\ callers' = [callers EXCEPT ![c].pc = "done", ![c].outcome = "KeyError",
                                               ![c].end = Some(now)]
    /\ UNCHANGED <<now, lastCall, db, trend, parsed, dispatch>>

\* lines 115-116: articles = trending_articles(session, lat, lon, limit)
ComputeTrending(c) ==
    /\ callers[c].pc = "compute"
    /\ \E articles \in trending_articles(db, callers[c].lat, callers[c].lon,
                                        callers[c].limit, now) :
         callers' = [callers EXCEPT ![c].pc = "store", ![c].computedAt = Some(now),
                                    ![c].articles = articles]
    /\ UNCHANGED <<now, cache, lastCall, used, db, trend, parsed, dispatch>>

\* lines 117-118: _trending_cache[key] = articles; return articles
StoreEntry(c) ==
    /\ callers[c].pc = "store"
    /\ \E key \in {callers[c].key} :
         /\ cache' = SetItem(cache, key, callers[c].articles, now)
         /\ used' = SelectSeq(Touch(used, key), LAMBDA k : HasKey(cache', k))
         /\ callers' = [callers EXCEPT ![c].pc = "done", ![c].outcome = "miss",
                                       ![c].result = callers[c].articles,
                                       ![c].end = Some(now)]
    /\ UNCHANGED <<now, lastCall, db, trend, parsed, dispatch>>

NextCallers ==
    \/ \E c \in Callers : TestKey(c) \/ ReadEntry(c) \/ ComputeTrending(c) \/ StoreEntry(c)
    \/ Tick

SpecCallers == InitCallers /\ [][NextCallers]_vars

(***************************************************************************)
(* Properties of overlapping callers, checked under SpecCallers.           *)
(***************************************************************************)
\* the caller has tested its key and has the read of the entry still to do:
\* it is inside the check-expiry / read sequence
InSequence(c) == callers[c].pc = "read"

\* C11: the check-expiry / read / insert / evict sequence of the trending
\* cache is executed under mutual exclusion: no two callers are inside it at
\* once.  (The code has no exclusive section at all, so the computation runs
\* outside of one.)
C11_MutualExclusion ==
    \A c1, c2 \in Callers : (InSequence(c1) /\ InSequence(c2)) => c1 = c2

\* C12: get_trending_articles never raises, whatever the interleaving of the
\* callers and the passage of time: every call returns a list, and an entry
\* that expires or is evicted between a caller's membership test and its read
\* is handled as a miss.
C12_NeverRaises ==
    \A c \in Callers :
        callers[c].pc = "done" => callers[c].outcome \in {"hit", "miss"}

\* both callers have missed the same key, the second one's test falling
\* between the first one's test and its store, and both have returned
Raced(c1, c2) ==
    /\ c1 # c2
    /\ callers[c1].pc = "done" /\ callers[c1].outcome = "miss"
    /\ callers[c2].pc = "done" /\ callers[c2].outcome = "miss"
    /\ callers[c1].key = callers[c2].key
    /\ (c1 \in callers[c2].peers \/ c2 \in callers[c1].peers)

EntriesUnder(key) == { i \in 1..Len(cache) : cache[i].key = key }

\* C13: two callers that concurrently miss the same uncached key may both
\* compute, and the race is harmless: both obtain the same list, and once both
\* have finished the cache holds exactly one entry for the key, equal to that
\* list.
C13_RaceHarmless ==
    \A c1, c2 \in Callers :
        Raced(c1, c2) =>
            /\ callers[c1].result = callers[c2].result
            /\ Cardinality(EntriesUnder(callers[c1].key)) = 1
            /\ EntryOf(cache, callers[c1].key).value = callers[c1].result

=============================================================================
